---------------------------- MODULE Spec2Model ----------------------------
(***************************************************************************)
(* A model of the AI Spotify playlist curator (src/app.py and src/tools).  *)
(*                                                                         *)
(* The Streamlit script is single-threaded: one script run executes from   *)
(* top to bottom, and only st.session_state survives it.  A script run is  *)
(* therefore one action.  The "Generate Playlist" handler is modelled as a *)
(* pipeline of operators, one per tool stage, that thread a record of the  *)
(* handler's locals and of the session state it writes (RunState below).   *)
(*                                                                         *)
(* Python values are modelled as follows: a dict is a record (a function   *)
(* from keys), `"k" in d` is "k" \in DOMAIN d, a list is a sequence, text  *)
(* that the code slices (titles, descriptions) is a sequence of character  *)
(* codes, None / a missing text is "" and a missing dict or list is <<>>.  *)
(*                                                                         *)
(* A tool function is an operator of the positional arguments the caller   *)
(* passes and of the answer the remote service would give.  Calling it     *)
(* with fewer positional arguments than it has required parameters raises  *)
(* TypeError before its body runs, as in Python.                           *)
(*                                                                         *)
(* Spec is the whole program.  SpecBatch, SpecResolve, SpecName, SpecParse *)
(* and SpecExtract apply one part of it (Tool 5, Tool 4 onwards, the       *)
(* playlist name, parse_openai_song_list, extract_first_track_uri) to      *)
(* every input of a bounded set; they share the variables of Spec.         *)
(***************************************************************************)
EXTENDS Integers, Sequences, FiniteSets, TLC

VARIABLES
    token_info,     \* st.session_state.token_info: 0 is None, n > 0 the n-th access token
    errors,         \* st.session_state.errors
    playlist_info,  \* st.session_state.playlist_info ({} is <<>>)
    calls,          \* history: the safe_call invocations of the last Generate press, in order
    env,            \* what the remote services answer during the last Generate press
    inp,            \* the widget values and the token at the last Generate press
    locals,         \* the handler's locals when the last Generate press ended
    outcome,        \* how the last Generate press ended ("none" before the first)
    runNo,          \* history: number of Generate presses so far
    error_runs,     \* history: for each entry of errors, the press that appended it
    info_run,       \* history: the press that wrote playlist_info (0: none)
    track_uris,     \* the handler's track_uris (app.py:285)
    next_i,         \* the index i of the generator chunked (app.py:120)
    next_s,         \* the number of songs the loop of app.py:286 has taken
    fn_arg,         \* the arguments of a helper function applied on its own
    fn_ret          \* what that helper function returned or raised

vars == <<token_info, errors, playlist_info, calls, env, inp, locals, outcome,
          runNo, error_runs, info_run, track_uris, next_i, next_s, fn_arg, fn_ret>>

\* ------------------------------------------------------------------------
\* Bounds of the model
\* ------------------------------------------------------------------------
\* the most tracks a search response lists
MaxHits == 4

MaxRuns == 2

\* the longest decoded array handed to parse_openai_song_list
MaxItems == 3

\* the longest song list handed to the search loop
MaxSongs == 3

\* the longest description and the longest generated title
MaxText == 45

MaxToken == 2

MaxUris == 205

\* ------------------------------------------------------------------------
\* Program constants
\* ------------------------------------------------------------------------
SPOTIFY_ADD_BATCH_SIZE == 100

TITLE_CUT == 40

MIN_LIMIT == 1

DEFAULT_LIMIT == 10

\* ------------------------------------------------------------------------
\* Python helpers
\* ------------------------------------------------------------------------
Min(a, b) == IF a < b THEN a ELSE b

\* s[:n]
Take(s, n) == SubSeq(s, 1, Min(n, Len(s)))

\* s[i:j] with 0 <= i, as Python clips it
Slice(s, i, j) == SubSeq(s, i + 1, Min(j, Len(s)))

\* d.get(k, default)
Get(d, k, default) == IF k \in DOMAIN d THEN d[k] ELSE default

\* A text of n characters whose i-th character tells its position.
Text(base, n) == [i \in 1..n |-> base + i]

\* "AI: "
AI_PREFIX == <<65, 73, 58, 32>>

\* ------------------------------------------------------------------------
\* Song (app.py:51-60)
\* ------------------------------------------------------------------------
Song(title, artist) == [title |-> title, artist |-> artist]

\* Song.__str__: f"{title} — {artist}"
SongStr(s) == <<s.title, " - ", s.artist>>

\* q = f"track:{s.title} artist:{s.artist}"
SearchQuery(s) == <<"track:", s.title, " artist:", s.artist>>

\* ------------------------------------------------------------------------
\* Tool functions (src/tools/*.py).  Each returns [raised, exc, value].
\* ------------------------------------------------------------------------
Return(v) == [raised |-> FALSE, exc |-> "", value |-> v]

Raise(e) == [raised |-> TRUE, exc |-> e, value |-> <<>>]

\* Python's binding of positional arguments to `required` parameters
\* followed by `optional` defaulted ones.
BindsOk(args, required, optional) ==
    /\ Len(args) >= required
    /\ Len(args) <= required + optional

\* str(TypeError) of a call that leaves the last required parameter unbound.
MissingArg(fn) ==
    CASE fn = "create_chat_completion" ->
           "create_chat_completion() missing 1 required positional argument: 'messages'"
      [] fn = "get_current_user_profile" ->
           "get_current_user_profile() missing 1 required positional argument: 'spotify_token'"
      [] fn = "create_playlist" ->
           "create_playlist() missing 1 required positional argument: 'spotify_token'"
      [] fn = "search_for_item" ->
           "search_for_item() missing 1 required positional argument: 'spotify_token'"
      [] OTHER ->
           "add_items_to_playlist() missing 1 required positional argument: 'spotify_token'"

\* create_chat_completion(messages).  answer.kind: "ok" (HTTP 200 and a JSON
\* body), "request_error" (requests raised a RequestException: connection
\* error, timeout, HTTP error status), "raise" (an exception that is not a
\* RequestException left the function).
create_chat_completion(args, answer) ==
    IF ~BindsOk(args, 1, 0)
    THEN Raise(MissingArg("create_chat_completion"))
    ELSE CASE answer.kind = "raise" -> Raise("Expecting value: line 1 column 1 (char 0)")
           [] answer.kind = "request_error" ->
                Return([error |-> "An error occurred while creating chat completion."])
           [] OTHER ->
                Return([choices |-> <<[message |-> [content |-> answer.content]]>>])

\* get_current_user_profile(spotify_token)
get_current_user_profile(args, answer) ==
    IF ~BindsOk(args, 1, 0)
    THEN Raise(MissingArg("get_current_user_profile"))
    ELSE CASE answer = "request_error" ->
                Return([error |-> "An error occurred while getting the user profile."])
           [] answer = "no_id" -> Return([display_name |-> "user"])
           [] OTHER -> Return([id |-> "user1", display_name |-> "user"])

\* create_playlist(user_id, playlist_name, spotify_token)
create_playlist(args, answer) ==
    IF ~BindsOk(args, 3, 0)
    THEN Raise(MissingArg("create_playlist"))
    ELSE CASE answer = "request_error" ->
                Return([error |-> "An error occurred while creating the playlist."])
           [] answer = "no_id" -> Return([name |-> args[2]])
           [] OTHER -> Return([id |-> "playlist1", name |-> args[2]])

\* The uri the catalog holds for a track title.
UriOf(title) == <<"spotify:track:", title>>

\* search_for_item(q, spotify_token, item_type="track").  answer.catalog is
\* the set of titles the service finds, answer.search its transport.
search_for_item(args, answer) ==
    IF ~BindsOk(args, 2, 1)
    THEN Raise(MissingArg("search_for_item"))
    ELSE CASE answer.search = "request_error" ->
                Return([error |-> "An error occurred while searching for the item."])
           [] args[1][2] \in answer.catalog ->
                Return([tracks |-> [items |-> <<[uri |-> UriOf(args[1][2])]>>]])
           [] OTHER -> Return([tracks |-> [items |-> <<>>]])

\* add_items_to_playlist(playlist_id, uris, spotify_token)
add_items_to_playlist(args, answer) ==
    IF ~BindsOk(args, 3, 0)
    THEN Raise(MissingArg("add_items_to_playlist"))
    ELSE CASE answer = "request_error" ->
                Return([error |-> "An error occurred while adding items to the playlist."])
           [] OTHER -> Return([snapshot_id |-> "snap"])

\* ------------------------------------------------------------------------
\* safe_call (app.py:66-77): {"result": ...} or {"error": {...}}
\* ------------------------------------------------------------------------
safe_call_NoCause(tool_name, out) ==
    IF out.raised
    THEN [error |-> [tool |-> tool_name, exception |-> "",
                     traceback |-> "Traceback (most recent call last)"]]
    ELSE [result |-> out.value]

safe_call(tool_name, out) ==
    IF out.raised
    THEN [error |-> [tool |-> tool_name, exception |-> out.exc,
                     traceback |-> "Traceback (most recent call last)"]]
    ELSE [result |-> out.value]

\* ------------------------------------------------------------------------
\* RunState: the session state a handler run writes, its locals, and where
\* control is: halt = "" (running), "skip" (the else-block of app.py:211 is
\* not entered), "stop" (st.stop()), "crash" (an uncaught exception).
\* ------------------------------------------------------------------------
NoLocals ==
    [song_objects |-> <<>>, playlist_title |-> <<>>, user_id |-> "",
     playlist_name |-> <<>>, playlist_id |-> ""]

NewRun(run, errs, eruns, info, irun) ==
    [run |-> run, errors |-> errs, error_runs |-> eruns,
     playlist_info |-> info, info_run |-> irun,
     calls |-> <<>>, halt |-> "", track_uris |-> <<>>,
     song_objects |-> <<>>, playlist_title |-> <<>>, user_id |-> "",
     playlist_name |-> <<>>, playlist_id |-> ""]

\* one safe_call invocation, kept in call order
Issue(r, fn, args, ret) ==
    [r EXCEPT !.calls = Append(@, [tool |-> fn, args |-> args, ret |-> ret])]

\* st.session_state.errors.append(e)
AppendError(r, e) ==
    [r EXCEPT !.errors = Append(@, e), !.error_runs = Append(@, r.run)]

\* st.session_state.errors = []  (app.py:167)
ResetErrors_Kept(r) == r

ResetErrors(r) == [r EXCEPT !.errors = <<>>, !.error_runs = <<>>]

\* st.stop(): the script run ends here
Stop_FallsThrough(r) == r

Stop(r) == [r EXCEPT !.halt = "stop"]

\* an exception nothing catches: Streamlit ends the script run and shows it
Crash(r) == [r EXCEPT !.halt = "crash"]

\* control has left the handler (or skipped its else-block)
Halted_StopIgnored(r) == r.halt \in {"crash", "skip", "warned"}

Halted(r) == r.halt # ""

\* ------------------------------------------------------------------------
\* Tool 1: OpenAI - generate songs (app.py:177-229)
\* ------------------------------------------------------------------------
Messages(description, limit) ==
    <<[role |-> "system"],
      [role |-> "user", description |-> description, limit |-> limit]>>

\* json.loads(content).  The completion text is modelled by what it decodes
\* to: [json |-> "invalid"] does not decode, [json |-> "array" | "object",
\* value |-> v] decodes to the list / dict v.
json_loads(content) ==
    IF content.json = "invalid"
    THEN Raise("JSONDecodeError")
    ELSE Return([type |-> content.json, v |-> content.value])

\* f"AI: {playlist_description[:40]}"
FallbackTitle(description) == AI_PREFIX \o Take(description, TITLE_CUT)

\* isinstance(item, dict): a JSON number is modelled as [json_number |-> n]
IsDict(item) == "json_number" \notin DOMAIN item

\* [Song(title=s["title"], artist=s["artist"]) for s in songs_data
\*  if "title" in s and "artist" in s]
SongObjects(songs_data) ==
    LET kept == SelectSeq(songs_data,
                          LAMBDA s : "title" \in DOMAIN s /\ "artist" \in DOMAIN s)
    IN  [k \in 1..Len(kept) |-> Song(kept[k].title, kept[k].artist)]

\* app.py:212-229
ParseCompletion(r, description, result) ==
    IF "choices" \notin DOMAIN result
    THEN Crash(r)                                   \* KeyError: 'choices'
    ELSE LET content == result.choices[1].message.content
             dec == json_loads(content)
         IN  IF dec.raised
             THEN [r EXCEPT !.playlist_title = FallbackTitle(description),
                            !.song_objects = <<>>]
             ELSE IF dec.value.type # "object"
             THEN Crash(r)                          \* AttributeError: no .get
             ELSE LET parsed == dec.value.v
                      songs_data == Get(parsed, "songs", <<>>)
                  IN  IF \E k \in 1..Len(songs_data) : ~IsDict(songs_data[k])
                      THEN Crash(r)               \* TypeError: `"title" in 7`
                      ELSE
                      [r EXCEPT
                         !.playlist_title =
                             Get(parsed, "playlist_title", FallbackTitle(description)),
                         !.song_objects = SongObjects(songs_data)]

Tool1(r, description, limit, e) ==
    LET args == <<Messages(description, limit)>>
        openai_call == safe_call("OpenAI (create_chat_completion)",
                                 create_chat_completion(args, e.openai))
        r1 == Issue(r, "create_chat_completion", args, openai_call)
    IN  IF "error" \in DOMAIN openai_call
        THEN [AppendError(r1, openai_call.error) EXCEPT
                 !.song_objects = <<>>, !.halt = "skip"]
        ELSE ParseCompletion(r1, description, openai_call.result)

\* ------------------------------------------------------------------------
\* Tool 2: Spotify - get current user profile (app.py:234-252)
\* ------------------------------------------------------------------------
Tool2(r, e) ==
    LET args == <<>>
        profile_call == safe_call("Spotify (get_current_user_profile)",
                                  get_current_user_profile(args, e.profile))
        r1 == Issue(r, "get_current_user_profile", args, profile_call)
        r2 == IF "error" \in DOMAIN profile_call
              THEN Stop(AppendError(r1, profile_call.error))
              ELSE r1
        user_id == Get(Get(profile_call, "result", <<>>), "id", "")
    IN  IF Halted(r2) THEN r2
        ELSE IF user_id = "" THEN Stop(r2)
        ELSE [r2 EXCEPT !.user_id = user_id]

\* ------------------------------------------------------------------------
\* Tool 3: Create playlist (app.py:257-280)
\* ------------------------------------------------------------------------
\* f"AI: {playlist_title[:40]}"
PlaylistName(playlist_title) == AI_PREFIX \o Take(playlist_title, TITLE_CUT)

Tool3(r, e) ==
    LET playlist_name == PlaylistName(r.playlist_title)
        args == <<r.user_id, playlist_name>>
        create_playlist_call == safe_call("Spotify (create_playlist)",
                                          create_playlist(args, e.create))
        r1 == [Issue(r, "create_playlist", args, create_playlist_call)
                  EXCEPT !.playlist_name = playlist_name]
        r2 == IF "error" \in DOMAIN create_playlist_call
              THEN Stop(AppendError(r1, create_playlist_call.error))
              ELSE r1
        playlist_id == Get(Get(create_playlist_call, "result", <<>>), "id", "")
    IN  IF Halted(r2) THEN r2
        ELSE IF playlist_id = ""
        THEN Stop(AppendError(r2, [tool |-> "create_playlist",
                                   exception |-> "no playlist id returned"]))
        ELSE [r2 EXCEPT !.playlist_id = playlist_id]

\* ------------------------------------------------------------------------
\* Tool 4: Search for each song -> get URIs (app.py:285-314)
\* ------------------------------------------------------------------------
\* the uri of the last track listed
extract_last_track_uri(track_search_response) ==
    LET items == Get(Get(track_search_response, "tracks", <<>>), "items", <<>>)
    IN  IF Len(items) = 0 THEN <<>> ELSE Get(items[Len(items)], "uri", <<>>)

\* app.py:105-116; None is <<>>
extract_first_track_uri(track_search_response) ==
    IF DOMAIN track_search_response = {} THEN <<>>
    ELSE LET tracks == Get(track_search_response, "tracks", <<>>)
         IN  IF DOMAIN tracks = {} THEN <<>>
             ELSE LET items == Get(tracks, "items", <<>>)
                  IN  IF Len(items) = 0 THEN <<>>
                      ELSE Get(items[1], "uri", <<>>)

\* an iteration that makes the call and records nothing
ResolveSong_Silent(r, s, e) ==
    LET args == <<SearchQuery(s)>>
    IN  Issue(r, "search_for_item", args,
              safe_call("Spotify (search_for_item)", search_for_item(args, e)))

\* one iteration of the loop of app.py:286-310
ResolveSong(r, s, e) ==
    LET args == <<SearchQuery(s)>>
        search_call == safe_call("Spotify (search_for_item)",
                                 search_for_item(args, e))
        r1 == Issue(r, "search_for_item", args, search_call)
    IN  IF "error" \in DOMAIN search_call
        THEN AppendError(r1, [song |-> SongStr(s)] @@ search_call.error)
        ELSE LET uri == extract_first_track_uri(search_call.result)
             IN  IF uri # <<>>
                 THEN [r1 EXCEPT !.track_uris = Append(@, uri)]
                 ELSE AppendError(r1, [song |-> SongStr(s),
                                       tool |-> "search_for_item",
                                       exception |-> "no track uri found"])

RECURSIVE Tool4From(_, _, _)
Tool4From(r, k, e) ==
    IF k > Len(r.song_objects) THEN r
    ELSE Tool4From(ResolveSong(r, r.song_objects[k], e), k + 1, e)

Tool4(r, e) == Tool4From([r EXCEPT !.track_uris = <<>>], 1, e)

\* ------------------------------------------------------------------------
\* Tool 5: Add tracks in batches (app.py:119-121, 319-352)
\* ------------------------------------------------------------------------
\* the chunk the generator yields at index i: iterable[i : i + size]
chunk_at_Short(iterable, i, size) == Slice(iterable, i, i + size - 1)

chunk_at(iterable, i, size) == Slice(iterable, i, i + size)

\* the generator is exhausted: range(0, len(iterable), size) has no i left
Exhausted(iterable, i) == i >= Len(iterable)

\* safe_call(add_items_to_playlist, playlist_id, chunk) for the chunk at i
AddCall(r, i, e) ==
    safe_call("Spotify (add_items_to_playlist)",
              add_items_to_playlist(
                  <<r.playlist_id, chunk_at(r.track_uris, i, SPOTIFY_ADD_BATCH_SIZE)>>,
                  e.add))

\* the body of the loop of app.py:322-337 for the chunk at i
AddChunk(r, i, e) ==
    LET add_call == AddCall(r, i, e)
        r1 == Issue(r, "add_items_to_playlist",
                    <<r.playlist_id, chunk_at(r.track_uris, i, SPOTIFY_ADD_BATCH_SIZE)>>,
                    add_call)
    IN  IF "error" \in DOMAIN add_call
        THEN AppendError(r1, add_call.error)
        ELSE r1

\* the index of the next iteration: `continue` after a failed chunk, the
\* end of the body after a good one; both take range's next i
AfterChunk_Break(i, failed, n) == IF failed THEN n ELSE i + SPOTIFY_ADD_BATCH_SIZE

AfterChunk(i, failed, n) == i + SPOTIFY_ADD_BATCH_SIZE

RECURSIVE Tool5From(_, _, _)
Tool5From(r, i, e) ==
    IF Exhausted(r.track_uris, i) THEN r
    ELSE Tool5From(AddChunk(r, i, e),
                   AfterChunk(i, "error" \in DOMAIN AddCall(r, i, e), Len(r.track_uris)),
                   e)

\* `if track_uris:` ... `else: st.warning(...)`
Tool5(r, e) == IF Len(r.track_uris) > 0 THEN Tool5From(r, 0, e) ELSE r

\* ------------------------------------------------------------------------
\* Persist results to session state (app.py:357-365)
\* ------------------------------------------------------------------------
Persist(r, description) ==
    [r EXCEPT
       !.playlist_info =
           [playlist_name |-> r.playlist_name,
            playlist_description |-> description,
            songs |-> r.song_objects,
            resolved_track_count |-> Len(r.track_uris),
            playlist_id |-> r.playlist_id],
       !.info_run = r.run]

\* ------------------------------------------------------------------------
\* The "Generate Playlist" handler (app.py:166-365)
\* ------------------------------------------------------------------------
\* the else-block of app.py:211-365 after the completion was parsed
AfterTool1(r, description, e) ==
    LET r2 == Tool2(r, e)
    IN  IF Halted(r2) THEN r2
        ELSE LET r3 == Tool3(r2, e)
             IN  IF Halted(r3) THEN r3
                 ELSE Persist(Tool5(Tool4(r3, e), e), description)

\* a handler that calls the language model before it looks at its inputs
GeneratePressed_Unvalidated(r, description, limit, e) ==
    LET r1 == Tool1(ResetErrors(r), description, limit, e)
    IN  IF Len(description) = 0 \/ limit = 0
        THEN [r1 EXCEPT !.halt = "warned"]
        ELSE IF Halted(r1) THEN r1
        ELSE AfterTool1(r1, description, e)

GeneratePressed(r, description, limit, e) ==
    LET r0 == ResetErrors(r)
    IN  IF Len(description) = 0 \/ limit = 0
        THEN [r0 EXCEPT !.halt = "warned"]
        ELSE LET r1 == Tool1(r0, description, limit, e)
             IN  IF Halted(r1) THEN r1
                 ELSE AfterTool1(r1, description, e)

\* The display section (app.py:367-384) is rendered unless st.stop() or an
\* uncaught exception ended the script run before it.
Displayed(halt) == halt \in {"", "skip", "warned"}

\* ------------------------------------------------------------------------
\* The environment: what the user types and what the services answer
\* ------------------------------------------------------------------------
Descriptions == {Text(96, 5), Text(96, TITLE_CUT + 5)}

Limits == {MIN_LIMIT, DEFAULT_LIMIT}

SongA == [title |-> "A", artist |-> "X"]

SongB == [title |-> "B", artist |-> "Y"]

SongC == [title |-> "C", artist |-> "Z"]

LMKinds ==
    {"raise", "request_error", "invalid", "array", "songs3", "long_title",
     "no_title", "no_songs", "bad_item", "empty_title"}

\* the language-model service's answer of each kind
LMAnswer(kind) ==
    CASE kind = "raise" -> [kind |-> "raise"]
      [] kind = "request_error" -> [kind |-> "request_error"]
      [] kind = "invalid" -> [kind |-> "ok", content |-> [json |-> "invalid"]]
      [] kind = "array" ->
           [kind |-> "ok",
            content |-> [json |-> "array", value |-> <<SongA, SongB>>]]
      [] kind = "songs3" ->
           [kind |-> "ok",
            content |-> [json |-> "object",
                         value |-> [playlist_title |-> Text(64, 10),
                                    songs |-> <<SongA, SongB, SongC>>]]]
      [] kind = "long_title" ->
           [kind |-> "ok",
            content |-> [json |-> "object",
                         value |-> [playlist_title |-> Text(64, TITLE_CUT + 5),
                                    songs |-> <<SongC>>]]]
      [] kind = "no_title" ->
           [kind |-> "ok",
            content |-> [json |-> "object",
                         value |-> [songs |-> <<[title |-> "A"], SongB>>]]]
      [] kind = "bad_item" ->
           [kind |-> "ok",
            content |-> [json |-> "object",
                         value |-> [playlist_title |-> Text(64, 10),
                                    songs |-> <<SongA, [json_number |-> 7], SongB>>]]]
      [] kind = "empty_title" ->
           [kind |-> "ok",
            content |-> [json |-> "object",
                         value |-> [playlist_title |-> Text(64, 10),
                                    songs |-> <<[title |-> "", artist |-> "X"],
                                                SongB>>]]]
      [] OTHER ->
           [kind |-> "ok",
            content |-> [json |-> "object",
                         value |-> [playlist_title |-> Text(64, 10)]]]

IdAnswers == {"ok", "no_id"}

Catalogs == {{}, {"A", "C"}, {"A", "B", "C"}}

Envs ==
    [lm : LMKinds, profile : IdAnswers, create : IdAnswers,
     catalog : Catalogs, search : {"ok"}, add : {"ok"}]

\* the answers as the tool functions read them
Answers(e) ==
    [openai |-> LMAnswer(e.lm), profile |-> e.profile, create |-> e.create,
     catalog |-> e.catalog, search |-> e.search, add |-> e.add]

NoEnv ==
    [lm |-> "songs3", profile |-> "ok", create |-> "ok",
     catalog |-> {}, search |-> "ok", add |-> "ok"]

\* ------------------------------------------------------------------------
\* The script (app.py:129-165): session state, login, token refresh
\* ------------------------------------------------------------------------
Init ==
    /\ token_info = 0
    /\ errors = <<>>
    /\ playlist_info = <<>>
    /\ calls = <<>>
    /\ env = NoEnv
    /\ inp = [description |-> <<>>, limit |-> DEFAULT_LIMIT, token |-> 0]
    /\ locals = NoLocals
    /\ outcome = "none"
    /\ runNo = 0
    /\ error_runs = <<>>
    /\ info_run = 0
    /\ track_uris = <<>>
    /\ next_i = 0
    /\ next_s = 0
    /\ fn_arg = <<>>
    /\ fn_ret = <<>>

\* app.py:136-147: the redirect carries ?code=, the token is stored, rerun
Login ==
    /\ token_info = 0
    /\ token_info' = 1
    /\ UNCHANGED <<errors, playlist_info, calls, env, inp, locals, outcome,
                   runNo, error_runs, info_run, track_uris, next_i,
                   next_s, fn_arg, fn_ret>>

\* app.py:150-153: a script run that finds the token expired refreshes it.
\* The refresh is the prelude of every script run of a logged-in session; a
\* press after it reads the refreshed token, so it is a step of its own.
RefreshToken ==
    /\ token_info > 0
    /\ token_info < MaxToken
    /\ token_info' = token_info + 1
    /\ UNCHANGED <<errors, playlist_info, calls, env, inp, locals, outcome,
                   runNo, error_runs, info_run, track_uris, next_i,
                   next_s, fn_arg, fn_ret>>

\* the state a handler run leaves behind
Leaves(r) ==
    /\ errors' = r.errors
    /\ error_runs' = r.error_runs
    /\ playlist_info' = r.playlist_info
    /\ info_run' = r.info_run
    /\ calls' = r.calls
    /\ locals' = [song_objects |-> r.song_objects,
                  playlist_title |-> r.playlist_title,
                  user_id |-> r.user_id,
                  playlist_name |-> r.playlist_name,
                  playlist_id |-> r.playlist_id]
    /\ track_uris' = r.track_uris
    /\ outcome' = IF r.halt = "" THEN "done" ELSE r.halt

\* "Generate Playlist" pressed with an empty description (app.py:166-170)
GenerateEmpty ==
    /\ token_info > 0
    /\ runNo < MaxRuns
    /\ \E limit \in Limits :
         /\ inp' = [description |-> <<>>, limit |-> limit, token |-> token_info]
         /\ Leaves(GeneratePressed(
                NewRun(runNo + 1, errors, error_runs, playlist_info, info_run),
                <<>>, limit, Answers(env)))
    /\ runNo' = runNo + 1
    /\ UNCHANGED <<token_info, env, next_i, next_s, fn_arg, fn_ret>>

\* "Generate Playlist" pressed with a description (app.py:166-365)
GeneratePlaylist ==
    /\ token_info > 0
    /\ runNo < MaxRuns
    /\ \E description \in Descriptions, limit \in Limits, e \in Envs :
         /\ inp' = [description |-> description, limit |-> limit, token |-> token_info]
         /\ env' = e
         /\ Leaves(GeneratePressed(
                NewRun(runNo + 1, errors, error_runs, playlist_info, info_run),
                description, limit, Answers(e)))
    /\ runNo' = runNo + 1
    /\ UNCHANGED <<token_info, next_i, next_s, fn_arg, fn_ret>>

Next == Login \/ RefreshToken \/ GenerateEmpty \/ GeneratePlaylist

Spec == Init /\ [][Next]_vars

\* ------------------------------------------------------------------------
\* The batch adder on its own: chunked and the loop of app.py:319-337
\* applied to any list of identifiers and either answer of the service
\* ------------------------------------------------------------------------
\* n identifiers, each telling its position
Uris(n) == [k \in 1..n |-> k]

\* the handler's state when it enters Tool 5
BatchRun ==
    [NewRun(runNo, errors, error_runs, playlist_info, info_run) EXCEPT
        !.calls = calls, !.track_uris = track_uris,
        !.playlist_id = locals.playlist_id, !.user_id = locals.user_id]

InitBatch ==
    /\ token_info = 1
    /\ errors = <<>>
    /\ playlist_info = <<>>
    /\ calls = <<>>
    /\ env \in {[NoEnv EXCEPT !.add = a] : a \in {"ok", "request_error"}}
    /\ inp = [description |-> Text(96, 5), limit |-> DEFAULT_LIMIT, token |-> 1]
    /\ locals = [NoLocals EXCEPT !.user_id = "user1", !.playlist_id = "playlist1"]
    /\ outcome = "tool5"
    /\ runNo = 1
    /\ error_runs = <<>>
    /\ info_run = 0
    /\ track_uris \in {Uris(n) : n \in 0..MaxUris}
    /\ next_i = 0
    /\ next_s = 0
    /\ fn_arg = <<>>
    /\ fn_ret = <<>>

\* one iteration: the generator yields the chunk at next_i, the body runs
AddStep ==
    /\ outcome = "tool5"
    /\ Len(track_uris) > 0
    /\ ~Exhausted(track_uris, next_i)
    /\ LET r == AddChunk(BatchRun, next_i, Answers(env))
       IN  /\ errors' = r.errors
           /\ error_runs' = r.error_runs
           /\ calls' = r.calls
    /\ next_i' = AfterChunk(next_i,
                            "error" \in DOMAIN AddCall(BatchRun, next_i, Answers(env)),
                            Len(track_uris))
    /\ UNCHANGED <<token_info, playlist_info, env, inp, locals, outcome, runNo,
                   info_run, track_uris, next_s, fn_arg, fn_ret>>

\* `if track_uris:` is false, or the generator is exhausted
AddDone ==
    /\ outcome = "tool5"
    /\ Len(track_uris) = 0 \/ Exhausted(track_uris, next_i)
    /\ outcome' = "tool5_done"
    /\ UNCHANGED <<token_info, errors, playlist_info, calls, env, inp, locals,
                   runNo, error_runs, info_run, track_uris, next_i,
                   next_s, fn_arg, fn_ret>>

NextBatch == AddStep \/ AddDone

SpecBatch == InitBatch /\ [][NextBatch]_vars

\* ------------------------------------------------------------------------
\* parse_openai_song_list (app.py:80-102) on its own.  The handler never
\* calls it; it is applied here to any decoded content and any limit.
\* Texts are sequences of character codes, None and "" are both <<>>.
\* ------------------------------------------------------------------------
\* a or b
Or(a, b) == IF a # <<>> THEN a ELSE b

RECURSIVE lstrip(_)
lstrip(s) == IF s # <<>> /\ Head(s) = 32 THEN lstrip(Tail(s)) ELSE s

RECURSIVE rstrip(_)
rstrip(s) ==
    IF s # <<>> /\ s[Len(s)] = 32 THEN rstrip(SubSeq(s, 1, Len(s) - 1)) ELSE s

\* str(s).strip() of a text
strip(s) == rstrip(lstrip(s))

\* parsed[:limit]
Capped_All(parsed, limit) == parsed

Capped(parsed, limit) == Take(parsed, limit)

\* the body of the loop for one item: the Song it appends, if any
ParseItem(item) ==
    IF ~IsDict(item)
    THEN <<>>
    ELSE LET title == Or(Or(Get(item, "title", <<>>), Get(item, "name", <<>>)),
                         Get(item, "track", <<>>))
             artist == Or(Get(item, "artist", <<>>), Get(item, "artists", <<>>))
         IN  IF title = <<>> \/ artist = <<>>
             THEN <<>>
             ELSE <<Song(strip(title), strip(artist))>>

RECURSIVE ParseItems(_)
ParseItems(items) ==
    IF items = <<>> THEN <<>>
    ELSE ParseItem(Head(items)) \o ParseItems(Tail(items))

parse_openai_song_list(raw_content, limit) ==
    LET dec == json_loads(raw_content)
    IN  IF dec.raised
        THEN Raise("ValueError: Failed to decode JSON from OpenAI response")
        ELSE IF dec.value.type # "array"
        THEN Raise("ValueError: OpenAI response JSON is not a list.")
        ELSE Return(ParseItems(Capped(dec.value.v, limit)))

\* the items a decoded array is made of, by name
ItemKinds ==
    {"title_artist", "name_artists", "track_artist", "padded",
     "empty_title_name", "no_artist", "no_title", "empty_artist", "number"}

ItemOf(kind) ==
    CASE kind = "title_artist" -> [title |-> <<65>>, artist |-> <<88>>]
      [] kind = "name_artists" -> [name |-> <<66>>, artists |-> <<89>>]
      [] kind = "track_artist" -> [track |-> <<67>>, artist |-> <<90>>]
      [] kind = "padded" -> [title |-> <<32, 68, 32>>, artist |-> <<32, 87>>]
      [] kind = "empty_title_name" ->
           [title |-> <<>>, name |-> <<69>>, artist |-> <<86>>]
      [] kind = "no_artist" -> [title |-> <<65>>]
      [] kind = "no_title" -> [artist |-> <<88>>]
      [] kind = "empty_artist" -> [title |-> <<65>>, artist |-> <<>>]
      [] OTHER -> [json_number |-> 7]

\* the arguments of one application: what the text decodes to, and the limit
ParseArgs ==
    [json : {"invalid", "object"}, items : {<<>>}, limit : 1..MaxItems]
    \cup [json : {"array"},
          items : UNION {[1..n -> ItemKinds] : n \in 0..MaxItems},
          limit : 1..MaxItems]

\* raw_content of the arguments a
RawContent(a) ==
    CASE a.json = "invalid" -> [json |-> "invalid"]
      [] a.json = "object" ->
           [json |-> "object", value |-> [playlist_title |-> Text(64, 10)]]
      [] OTHER ->
           [json |-> "array",
            value |-> [k \in 1..Len(a.items) |-> ItemOf(a.items[k])]]

NotReturned == [done |-> FALSE, raised |-> FALSE, exc |-> "", value |-> <<>>]

Returned(out) ==
    [done |-> TRUE, raised |-> out.raised, exc |-> out.exc, value |-> out.value]

InitParse ==
    /\ token_info = 0
    /\ errors = <<>>
    /\ playlist_info = <<>>
    /\ calls = <<>>
    /\ env = NoEnv
    /\ inp = [description |-> <<>>, limit |-> DEFAULT_LIMIT, token |-> 0]
    /\ locals = NoLocals
    /\ outcome = "parse"
    /\ runNo = 0
    /\ error_runs = <<>>
    /\ info_run = 0
    /\ track_uris = <<>>
    /\ next_i = 0
    /\ next_s = 0
    /\ fn_arg \in ParseArgs
    /\ fn_ret = NotReturned

ParseCall ==
    /\ outcome = "parse"
    /\ fn_ret' = Returned(parse_openai_song_list(RawContent(fn_arg), fn_arg.limit))
    /\ outcome' = "parsed"
    /\ UNCHANGED <<token_info, errors, playlist_info, calls, env, inp, locals,
                   runNo, error_runs, info_run, track_uris, next_i, next_s,
                   fn_arg>>

NextParse == ParseCall

SpecParse == InitParse /\ [][NextParse]_vars

\* ------------------------------------------------------------------------
\* Stage 4 onwards on its own: the search loop of app.py:285-314, then
\* Tool 5 and the write of playlist_info (app.py:319-365), applied to any
\* parsed song list, any catalog and either transport of the search service
\* ------------------------------------------------------------------------
SongLists == UNION {[1..n -> {SongA, SongB, SongC}] : n \in 0..MaxSongs}

\* the handler's state when it enters Tool 4, and between two iterations
ResolveRun ==
    [NewRun(runNo, errors, error_runs, playlist_info, info_run) EXCEPT
        !.calls = calls, !.track_uris = track_uris,
        !.song_objects = locals.song_objects,
        !.playlist_title = locals.playlist_title,
        !.playlist_name = locals.playlist_name,
        !.playlist_id = locals.playlist_id, !.user_id = locals.user_id]

InitResolve ==
    /\ token_info = 1
    /\ errors = <<>>
    /\ playlist_info = <<>>
    /\ calls = <<>>
    /\ env \in {[NoEnv EXCEPT !.catalog = c, !.search = t] :
                   c \in Catalogs, t \in {"ok", "request_error"}}
    /\ inp = [description |-> Text(96, 5), limit |-> DEFAULT_LIMIT, token |-> 1]
    /\ \E songs \in SongLists :
          locals = [NoLocals EXCEPT !.song_objects = songs,
                                    !.playlist_title = Text(64, 10),
                                    !.playlist_name = PlaylistName(Text(64, 10)),
                                    !.user_id = "user1",
                                    !.playlist_id = "playlist1"]
    /\ outcome = "tool4"
    /\ runNo = 1
    /\ error_runs = <<>>
    /\ info_run = 0
    /\ track_uris = <<>>
    /\ next_i = 0
    /\ next_s = 0
    /\ fn_arg = <<>>
    /\ fn_ret = <<>>

\* one iteration of `for s in song_objects`
ResolveStep ==
    /\ outcome = "tool4"
    /\ next_s < Len(locals.song_objects)
    /\ LET r == ResolveSong(ResolveRun, locals.song_objects[next_s + 1],
                            Answers(env))
       IN  /\ errors' = r.errors
           /\ error_runs' = r.error_runs
           /\ calls' = r.calls
           /\ track_uris' = r.track_uris
    /\ next_s' = next_s + 1
    /\ UNCHANGED <<token_info, playlist_info, env, inp, locals, outcome, runNo,
                   info_run, next_i, fn_arg, fn_ret>>

\* the loop is over: Tool 5 runs and playlist_info is written
ResolveDone ==
    /\ outcome = "tool4"
    /\ next_s = Len(locals.song_objects)
    /\ LET r == Persist(Tool5(ResolveRun, Answers(env)), inp.description)
       IN  /\ errors' = r.errors
           /\ error_runs' = r.error_runs
           /\ calls' = r.calls
           /\ playlist_info' = r.playlist_info
           /\ info_run' = r.info_run
    /\ outcome' = "done"
    /\ UNCHANGED <<token_info, env, inp, locals, runNo, track_uris, next_i,
                   next_s, fn_arg, fn_ret>>

NextResolve == ResolveStep \/ ResolveDone

SpecResolve == InitResolve /\ [][NextResolve]_vars

\* ------------------------------------------------------------------------
\* The playlist name on its own: the title Tool 1 derives from a completion
\* (app.py:212-229) and the name Tool 3 builds from it (app.py:257), for any
\* description and any title the completion may carry
\* ------------------------------------------------------------------------
\* a description, and what the completion's content is: not JSON, an object
\* without playlist_title, or an object whose playlist_title has `title` characters
NameArgs ==
    [description : {Text(96, n) : n \in 1..MaxText},
     content : {"invalid", "no_title"}, title : {0}]
    \cup [description : {Text(96, n) : n \in 1..MaxText},
          content : {"titled"}, title : 0..MaxText]

\* the completion the language model returned
Completion(a) ==
    [choices |-> <<[message |-> [content |->
        CASE a.content = "invalid" -> [json |-> "invalid"]
          [] a.content = "no_title" ->
               [json |-> "object", value |-> [songs |-> <<SongA>>]]
          [] OTHER ->
               [json |-> "object",
                value |-> [playlist_title |-> Text(64, a.title),
                           songs |-> <<SongA>>]]]]>>]

InitName ==
    /\ token_info = 1
    /\ errors = <<>>
    /\ playlist_info = <<>>
    /\ calls = <<>>
    /\ env = NoEnv
    /\ inp = [description |-> <<>>, limit |-> DEFAULT_LIMIT, token |-> 1]
    /\ locals = NoLocals
    /\ outcome = "tool1"
    /\ runNo = 1
    /\ error_runs = <<>>
    /\ info_run = 0
    /\ track_uris = <<>>
    /\ next_i = 0
    /\ next_s = 0
    /\ fn_arg \in NameArgs
    /\ fn_ret = <<>>

\* app.py:212-229
TitleStep ==
    /\ outcome = "tool1"
    /\ LET r == ParseCompletion(
                    NewRun(runNo, errors, error_runs, playlist_info, info_run),
                    fn_arg.description, Completion(fn_arg))
       IN  locals' = [locals EXCEPT !.playlist_title = r.playlist_title,
                                    !.song_objects = r.song_objects]
    /\ outcome' = "tool3"
    /\ UNCHANGED <<token_info, errors, playlist_info, calls, env, inp, runNo,
                   error_runs, info_run, track_uris, next_i, next_s, fn_arg,
                   fn_ret>>

\* app.py:257
NameStep ==
    /\ outcome = "tool3"
    /\ locals' = [locals EXCEPT !.playlist_name = PlaylistName(locals.playlist_title)]
    /\ outcome' = "named"
    /\ UNCHANGED <<token_info, errors, playlist_info, calls, env, inp, runNo,
                   error_runs, info_run, track_uris, next_i, next_s, fn_arg,
                   fn_ret>>

NextName == TitleStep \/ NameStep

SpecName == InitName /\ [][NextName]_vars

\* ------------------------------------------------------------------------
\* extract_first_track_uri (app.py:105-116) on its own, applied to any
\* response of the search tool
\* ------------------------------------------------------------------------
\* the shapes of a response, and the titles of the tracks it lists
ExtractArgs ==
    [shape : {"none", "empty", "error", "null_tracks", "no_items"}, items : {<<>>}]
    \cup [shape : {"items"},
          items : UNION {[1..n -> {"A", "B", "C"}] : n \in 0..MaxHits}]

\* track_search_response of the arguments a
SearchResponse(a) ==
    CASE a.shape \in {"none", "empty"} -> <<>>
      [] a.shape = "error" ->
           [error |-> "An error occurred while searching for the item."]
      [] a.shape = "null_tracks" -> [tracks |-> <<>>]
      [] a.shape = "no_items" -> [tracks |-> [total |-> 0]]
      [] OTHER ->
           [tracks |-> [items |-> [k \in 1..Len(a.items) |->
                                      [uri |-> UriOf(a.items[k])]]]]

InitExtract ==
    /\ token_info = 0
    /\ errors = <<>>
    /\ playlist_info = <<>>
    /\ calls = <<>>
    /\ env = NoEnv
    /\ inp = [description |-> <<>>, limit |-> DEFAULT_LIMIT, token |-> 0]
    /\ locals = NoLocals
    /\ outcome = "extract"
    /\ runNo = 0
    /\ error_runs = <<>>
    /\ info_run = 0
    /\ track_uris = <<>>
    /\ next_i = 0
    /\ next_s = 0
    /\ fn_arg \in ExtractArgs
    /\ fn_ret = NotReturned

ExtractCall ==
    /\ outcome = "extract"
    /\ fn_ret' = Returned(Return(extract_first_track_uri(SearchResponse(fn_arg))))
    /\ outcome' = "extracted"
    /\ UNCHANGED <<token_info, errors, playlist_info, calls, env, inp, locals,
                   runNo, error_runs, info_run, track_uris, next_i, next_s,
                   fn_arg>>

NextExtract == ExtractCall

SpecExtract == InitExtract /\ [][NextExtract]_vars

\* ========================================================================
\* Properties
\* ========================================================================
StageOf(fn) ==
    CASE fn = "create_chat_completion" -> 1
      [] fn = "get_current_user_profile" -> 2
      [] fn = "create_playlist" -> 3
      [] fn = "search_for_item" -> 4
      [] OTHER -> 5

\* the call returned a result with a non-empty `id`
ReturnedId(c) ==
    /\ "result" \in DOMAIN c.ret
    /\ Get(c.ret.result, "id", "") # ""

\* the last press had a description, so the handler's else-block ran
PressedWithDescription == runNo > 0 /\ Len(inp.description) > 0

\* language-model answers from which Tool 1 derives a song list and goes on
ParsedKinds ==
    {"invalid", "songs3", "long_title", "no_title", "no_songs", "empty_title"}

\* the indices of the calls of one stage
CallsOfStage(n) == {i \in 1..Len(calls) : StageOf(calls[i].tool) = n}

\* C1: the stages of a run are ordered and gated.  The calls of a press are
\* logged in the order they are issued, each with the value safe_call
\* returned for it.  No call of a later stage precedes a call of an earlier
\* stage; a create-playlist call comes only after a profile call of the same
\* press that returned a non-empty id; a search or add-tracks call comes
\* only after a create-playlist call that returned a non-empty id.
C1_StagesOrderedAndGated ==
    \A i \in 1..Len(calls) :
        /\ \A j \in 1..(i - 1) : StageOf(calls[j].tool) <= StageOf(calls[i].tool)
        /\ StageOf(calls[i].tool) = 3 =>
              \E j \in 1..(i - 1) :
                  StageOf(calls[j].tool) = 2 /\ ReturnedId(calls[j])
        /\ StageOf(calls[i].tool) \in {4, 5} =>
              \E j \in 1..(i - 1) :
                  StageOf(calls[j].tool) = 3 /\ ReturnedId(calls[j])

\* a press whose language-model answer was parsed into three songs before
\* the profile lookup was called
C1_Witness ==
    /\ Len(calls) = 2
    /\ calls[1].tool = "create_chat_completion"
    /\ calls[2].tool = "get_current_user_profile"
    /\ Len(locals.song_objects) = 3

\* C2: a failed stage 2 or stage 3 is fatal.  A profile or create-playlist
\* call that did not return a non-empty id is the last call of its press,
\* the press ends in st.stop(), and playlist_info is not written by it.
C2_FatalStages ==
    \A i \in 1..Len(calls) :
        (StageOf(calls[i].tool) \in {2, 3} /\ ~ReturnedId(calls[i])) =>
            /\ i = Len(calls)
            /\ outcome = "stop"
            /\ info_run # runNo

\* a press that was stopped by the profile lookup although the services
\* would have answered profile and create-playlist
C2_Witness ==
    /\ outcome = "stop"
    /\ Len(calls) = 2
    /\ calls[2].tool = "get_current_user_profile"
    /\ ~ReturnedId(calls[2])
    /\ env.profile = "ok" /\ env.create = "ok"
    /\ info_run # runNo

\* C3: when the language-model call fails with a network error (requests
\* raises a RequestException), the press does not finalize, issues no
\* profile, create-playlist, search or add-tracks call, leaves zero songs,
\* leaves exactly one error entry, of tool create_chat_completion, and
\* reaches the display section.
C3_NetworkErrorRecorded ==
    (PressedWithDescription /\ env.lm = "request_error") =>
        /\ outcome # "done"
        /\ \A i \in 1..Len(calls) : StageOf(calls[i].tool) = 1
        /\ Len(locals.song_objects) = 0
        /\ Len(errors) = 1
        /\ errors[1].tool = "OpenAI (create_chat_completion)"
        /\ Displayed(outcome)

\* an entry a presence check appends (app.py:273-278): not one safe_call
\* built (no traceback), not one of the search loop (no song)
MissingIdentifierEntry(e) ==
    /\ "traceback" \notin DOMAIN e
    /\ "song" \notin DOMAIN e

\* C4: when the profile service answers without an `id`, the press aborts
\* before playlist creation and the error list holds exactly one
\* "missing identifier" entry.
C4_MissingProfileId ==
    (PressedWithDescription /\ env.lm \in ParsedKinds /\ env.profile = "no_id") =>
        /\ CallsOfStage(3) = {}
        /\ Cardinality({k \in 1..Len(errors) : MissingIdentifierEntry(errors[k])}) = 1

\* the entries of the error list that name a song
SongEntries == {k \in 1..Len(errors) : "song" \in DOMAIN errors[k]}

\* C5: stage 4 calls the resolver once for every parsed song, in song
\* order; every failure or "not found" appends one entry naming the song
\* and the loop goes on; the identifiers are collected in song order.  For
\* songs A, B, C of which the catalog holds A and C: two identifiers are
\* resolved and one "not found" entry names B.
C5_EverySongResolvedOnce ==
    (PressedWithDescription /\ env.lm \in ParsedKinds
       /\ env.profile = "ok" /\ env.create = "ok") =>
        /\ Cardinality(CallsOfStage(4)) = Len(locals.song_objects)
        /\ Len(track_uris) + Cardinality(SongEntries) = Len(locals.song_objects)
        /\ (env.lm = "songs3" /\ env.catalog = {"A", "C"}) =>
              /\ track_uris = <<UriOf("A"), UriOf("C")>>
              /\ Cardinality(SongEntries) = 1
              /\ \A k \in SongEntries :
                    /\ errors[k].song = SongStr(SongB)
                    /\ errors[k].exception = "no track uri found"

\* the position of the parameter spotify_token in a tool's signature
TokenPos(fn) ==
    CASE fn = "get_current_user_profile" -> 1
      [] fn = "search_for_item" -> 2
      [] OTHER -> 3

\* st.session_state.token_info["access_token"] of the n-th token
AccessToken(n) == <<"access_token", n>>

\* C6: every streaming-service call of a press is passed the session's
\* current access token.
C6_TokenPassed ==
    \A i \in 1..Len(calls) :
        StageOf(calls[i].tool) >= 2 =>
            /\ Len(calls[i].args) >= TokenPos(calls[i].tool)
            /\ calls[i].args[TokenPos(calls[i].tool)] = AccessToken(inp.token)

Ceil(L, B) == (L + B - 1) \div B

\* the chunks handed to add_items_to_playlist, in call order
SubmittedChunks == [k \in 1..Len(calls) |-> calls[k].args[2]]

RECURSIVE Flatten(_)
Flatten(ss) == IF Len(ss) = 0 THEN <<>> ELSE Head(ss) \o Flatten(Tail(ss))

\* C9: for L >= 1 identifiers the loop of stage 5 calls
\* add_items_to_playlist exactly ceil(L / 100) times, each time with at
\* least 1 and at most 100 identifiers, and the chunks in call order
\* concatenate to the original sequence.
C9_BatchCalls ==
    (outcome = "tool5_done" /\ Len(track_uris) >= 1) =>
        /\ Len(calls) = Ceil(Len(track_uris), SPOTIFY_ADD_BATCH_SIZE)
        /\ \A k \in 1..Len(calls) :
              /\ calls[k].tool = "add_items_to_playlist"
              /\ Len(SubmittedChunks[k]) >= 1
              /\ Len(SubmittedChunks[k]) <= SPOTIFY_ADD_BATCH_SIZE
        /\ Flatten(SubmittedChunks) = track_uris

\* three chunks were handed over, the last one shorter than the batch size
C9_Witness ==
    /\ outcome = "tool5_done"
    /\ Len(calls) = 3
    /\ Len(calls[3].args[2]) < SPOTIFY_ADD_BATCH_SIZE
    /\ Len(calls[3].args[2]) >= 1

\* the calls that safe_call reports as failed
FailedCalls == {k \in 1..Len(calls) : "error" \in DOMAIN calls[k].ret}

\* the entries of the error list that stage 5 appended
AddEntries ==
    {k \in 1..Len(errors) : errors[k].tool = "Spotify (add_items_to_playlist)"}

Resolvable ==
    {k \in 1..Len(locals.song_objects) :
        locals.song_objects[k].title \in env.catalog}

\* an entry that records a condition and not a failed call: not built by
\* safe_call (no traceback) and not naming a song
ConditionEntries ==
    {k \in 1..Len(errors) :
        "traceback" \notin DOMAIN errors[k] /\ "song" \notin DOMAIN errors[k]}

\* C11: an add-tracks call is issued in a press exactly when at least one
\* track identifier is resolved.  When the services answer profile and
\* create-playlist and the catalog holds none of the parsed songs, the press
\* issues no add-tracks call, records one warning entry in the error list
\* and still finalizes.
C11_AddIffResolved ==
    (PressedWithDescription /\ env.lm \in ParsedKinds
       /\ env.profile = "ok" /\ env.create = "ok") =>
        /\ (CallsOfStage(5) # {}) <=> (Resolvable # {})
        /\ Resolvable = {} =>
              /\ CallsOfStage(5) = {}
              /\ ConditionEntries # {}
              /\ outcome = "done"
              /\ info_run = runNo

\* C12: the song list derived from the completion is capped at the requested
\* count: after a press the handler's song list, the identifiers resolved
\* from it and the songs of a stored summary number at most `limit`, also
\* when the completion lists more than `limit` songs.
C12_SongsCapped ==
    PressedWithDescription =>
        /\ Len(locals.song_objects) <= inp.limit
        /\ Len(track_uris) <= inp.limit
        /\ info_run = runNo =>
              /\ Len(playlist_info.songs) <= inp.limit
              /\ playlist_info.resolved_track_count <= inp.limit

\* the items that carry a title (under title, name or track) and an artist
\* (under artist or artists), and the letters they carry once trimmed
WellFormedKinds ==
    {"title_artist", "name_artists", "track_artist", "padded", "empty_title_name"}

TitleLetter(kind) ==
    CASE kind = "title_artist" -> 65
      [] kind = "name_artists" -> 66
      [] kind = "track_artist" -> 67
      [] kind = "padded" -> 68
      [] OTHER -> 69

ArtistLetter(kind) ==
    CASE kind = "title_artist" -> 88
      [] kind = "name_artists" -> 89
      [] kind = "track_artist" -> 90
      [] kind = "padded" -> 87
      [] OTHER -> 86

\* the positions, among the first `limit`, of the well-formed items
KeptPositions ==
    {i \in 1..Min(fn_arg.limit, Len(fn_arg.items)) :
        fn_arg.items[i] \in WellFormedKinds}

\* C13: parse_openai_song_list(raw, N) raises exactly when the text does not
\* decode or decodes to something that is not an array; otherwise it returns
\* one Song for every well-formed item among the first N items of the array
\* and nothing else, in the order of the items: an item that is not an
\* object or lacks a title or an artist is left out and the items after it
\* are still taken.
C13_ParserKeepsWellFormed ==
    outcome = "parsed" =>
        /\ fn_ret.raised <=> fn_arg.json # "array"
        /\ fn_arg.json = "array" =>
              /\ Len(fn_ret.value) = Cardinality(KeptPositions)
              /\ \A i \in KeptPositions :
                    LET j == Cardinality({m \in KeptPositions : m <= i})
                    IN  fn_ret.value[j] =
                            Song(<<TitleLetter(fn_arg.items[i])>>,
                                 <<ArtistLetter(fn_arg.items[i])>>)

\* three items and a limit of two: the first is not an object, the second
\* is returned, the third is beyond the limit
C13_Witness ==
    /\ outcome = "parsed"
    /\ fn_arg.json = "array"
    /\ fn_arg.limit = 2
    /\ fn_arg.items = <<"number", "name_artists", "title_artist">>
    /\ fn_ret.value = <<Song(<<66>>, <<89>>)>>

\* the songs of a completion whose entries are not all well formed, without
\* the malformed entries
WellFormedSongs(kind) ==
    CASE kind = "bad_item" -> <<SongA, SongB>>
      [] OTHER -> <<SongB>>

\* C14: a malformed entry of the completion's song list (a number, an entry
\* without artist, an entry with an empty title) is skipped on its own: the
\* press does not end in an uncaught exception, the handler's song list is
\* the remaining entries in their order, and the press goes on to the
\* profile lookup.
C14_MalformedItemsSkipped ==
    (PressedWithDescription /\ env.lm \in {"bad_item", "no_title", "empty_title"}) =>
        /\ outcome # "crash"
        /\ locals.song_objects = WellFormedSongs(env.lm)
        /\ CallsOfStage(2) # {}

\* the entries of the error list that stage 1 appended
LMEntries ==
    {k \in 1..Len(errors) : errors[k].tool = "OpenAI (create_chat_completion)"}

\* C15: when the language-model call returns but its content is malformed
\* (it does not decode as JSON, or it decodes to something that is not an
\* object with playlist_title and songs), stage 1 fails without ending the
\* press: exactly one entry of stage 1 is appended to the error list, the
\* song list is empty and the press goes on to the profile lookup.
C15_MalformedContentCollected ==
    (PressedWithDescription /\ env.lm \in {"invalid", "array", "no_songs"}) =>
        /\ outcome # "crash"
        /\ Cardinality(LMEntries) = 1
        /\ Len(locals.song_objects) = 0
        /\ CallsOfStage(2) # {}

\* the songs the search loop has taken so far
TakenSongs == {k \in 1..next_s : k <= Len(locals.song_objects)}

\* the entries of the error list that name the song s
EntriesOf(s) ==
    {k \in 1..Len(errors) :
        "song" \in DOMAIN errors[k] /\ errors[k].song = SongStr(s)}

\* C16: a failed search and a search that finds nothing are told apart.  A
\* song whose search request fails in transport gets an entry of the search
\* tool that is not "no track uri found"; a song whose search is answered
\* with no track gets the entry "no track uri found" and no entry of a
\* failed call.
C16_FailureIsNotNotFound ==
    \A i \in TakenSongs :
        LET s == locals.song_objects[i]
        IN  /\ env.search = "request_error" =>
                  /\ EntriesOf(s) # {}
                  /\ \A k \in EntriesOf(s) :
                        /\ errors[k].tool = "Spotify (search_for_item)"
                        /\ errors[k].exception # "no track uri found"
            /\ (env.search = "ok" /\ s.title \notin env.catalog) =>
                  /\ EntriesOf(s) # {}
                  /\ \A k \in EntriesOf(s) :
                        /\ errors[k].exception = "no track uri found"
                        /\ "traceback" \notin DOMAIN errors[k]

\* C17: every entry of st.session_state.errors carries the name of the tool
\* it comes from and a cause, both non-empty, under the keys `tool` and
\* `exception`, whichever stage appended it.
C17_EntriesCarryToolAndCause ==
    \A k \in 1..Len(errors) :
        /\ "tool" \in DOMAIN errors[k]
        /\ errors[k].tool # ""
        /\ "exception" \in DOMAIN errors[k]
        /\ errors[k].exception # ""

\* the second press of a session was stopped by its profile call and left
\* the entry safe_call built for it
C17_Witness ==
    /\ runNo = 2
    /\ outcome = "stop"
    /\ Len(errors) = 1
    /\ errors[1].tool = "Spotify (get_current_user_profile)"
    /\ errors[1].exception = MissingArg("get_current_user_profile")

\* the number of places at which the text p occurs in the text s
Occurrences(p, s) ==
    Cardinality({i \in 1..(Len(s) - Len(p) + 1) :
                    SubSeq(s, i, i + Len(p) - 1) = p})

\* C18: the playlist name built for the create-playlist call is the prefix
\* "AI: ", occurring exactly once, followed by the generated title cut to at
\* most 40 characters, for every completion, the ones that fall back to the
\* default title included; it is never longer than 44 characters.
C18_NamePrefixedOnce ==
    outcome = "named" =>
        /\ Len(locals.playlist_name) <= Len(AI_PREFIX) + TITLE_CUT
        /\ Take(locals.playlist_name, Len(AI_PREFIX)) = AI_PREFIX
        /\ Occurrences(AI_PREFIX, locals.playlist_name) = 1
        /\ fn_arg.content = "titled" =>
              locals.playlist_name =
                  AI_PREFIX \o Take(Text(64, fn_arg.title), TITLE_CUT)

\* C19: the outcome of a track resolution is determined by the search
\* response alone: it is the uri of the first element of tracks.items when
\* the response lists at least one track, and "not found" (None) when the
\* response is missing, has no tracks, or lists no items.
C19_FirstUriOrNotFound ==
    outcome = "extracted" =>
        /\ ~fn_ret.raised
        /\ (fn_arg.shape = "items" /\ Len(fn_arg.items) > 0) =>
              fn_ret.value = UriOf(fn_arg.items[1])
        /\ (fn_arg.shape # "items" \/ Len(fn_arg.items) = 0) =>
              fn_ret.value = <<>>

\* a response that lists the tracks B and A resolved to the uri of B
C19_Witness ==
    /\ outcome = "extracted"
    /\ fn_arg.shape = "items"
    /\ fn_arg.items = <<"B", "A">>
    /\ fn_ret.value = UriOf("B")

\* C20: stage 4 conserves songs.  Every song the search loop has taken left
\* either one identifier or one entry naming the song, so when the loop ends
\* the identifiers and the entries of stage 4 together number the songs, and
\* the resolved count written to playlist_info never exceeds the number of
\* songs written with it.
C20_SongsConserved ==
    /\ outcome = "tool4" =>
          /\ \A k \in 1..Len(errors) : "song" \in DOMAIN errors[k]
          /\ Len(track_uris) + Cardinality(SongEntries) = next_s
    /\ outcome = "done" =>
          /\ Len(track_uris) + Cardinality(SongEntries) = Len(locals.song_objects)
          /\ playlist_info.songs = locals.song_objects
          /\ playlist_info.resolved_track_count = Len(track_uris)
          /\ playlist_info.resolved_track_count <= Len(playlist_info.songs)

\* three songs were taken, each left one entry, and the summary was written
C20_Witness ==
    /\ outcome = "done"
    /\ Len(locals.song_objects) = 3
    /\ Len(track_uris) + Cardinality(SongEntries) = 3
    /\ Len(playlist_info.songs) = 3

\* C21: a press of "Generate Playlist" with an empty description issues no
\* remote call of any kind, leaves st.session_state.playlist_info as it
\* was, and still empties the error list.
C21_EmptyPressFrame ==
    [][(runNo' = runNo + 1 /\ Len(inp'.description) = 0) =>
          /\ calls' = <<>>
          /\ playlist_info' = playlist_info
          /\ info_run' = info_run
          /\ errors' = <<>>
          /\ outcome' = "warned"]_vars

\* the first press of a session had a description and was stopped with an
\* entry in the error list (env still holds its answers); the second had an
\* empty description: it was answered with the warning, made no call and
\* left an empty error list
C21_Witness ==
    /\ runNo = 2
    /\ env.lm = "long_title"
    /\ Len(inp.description) = 0
    /\ outcome = "warned"
    /\ calls = <<>>
    /\ errors = <<>>

\* C22: a press issues at most one language-model call, at most one profile
\* lookup and at most one create-playlist call.  The create-playlist call is
\* issued whenever stages 1 and 2 succeed, also for an empty song list: when
\* the completion yields no song and the services answer profile and
\* create-playlist with ids, the press creates the playlist and finalizes
\* with no songs and a resolved count of 0.
C22_OneCallEachEmptyPlaylist ==
    /\ \A n \in 1..3 : Cardinality(CallsOfStage(n)) <= 1
    /\ (PressedWithDescription /\ env.lm \in ParsedKinds /\ env.profile = "ok") =>
          Cardinality(CallsOfStage(3)) = 1
    /\ (PressedWithDescription /\ env.lm \in {"invalid", "no_songs"}
          /\ env.profile = "ok" /\ env.create = "ok") =>
          /\ outcome = "done"
          /\ info_run = runNo
          /\ Len(playlist_info.songs) = 0
          /\ playlist_info.resolved_track_count = 0

=============================================================================
